---------------------------- MODULE Spec2Model ----------------------------
(***************************************************************************)
(* A model of csb_util: the CSB binary codec (csb.py), its CSV text form   *)
(* and the batch decode loop of the command line (__main__.py).            *)
(*                                                                         *)
(* A byte stream is a sequence of bytes (0..255) and a file position is a  *)
(* 0-based offset into it, as io.BufferedReader.tell() reports it.  A text *)
(* string is a sequence of Unicode code points; a table (the code's        *)
(* `lines`) is a sequence of rows, a row a sequence of strings.            *)
(***************************************************************************)
EXTENDS Integers, Sequences, FiniteSets, TLC

VARIABLES
    lines,            \* the table handed to write_csb
    byte_order,       \* "<" or ">", the byte order handed to write_csb
    f,                \* the bytes of the CSB file
    str_map,          \* write_strp's return value: string -> address
    line_map,         \* write_lnp's return value: row index -> address
    tampered,         \* what was done to the file after it was written
    validate_result,  \* the flag of the last read_csb call
    result,           \* what the last read_csb call returned (or raised)
    pc,               \* codec scenario position: "start", "written", "read"
    files,            \* CLI decode: the contents of the input files, in order
    skip_validation,  \* CLI decode: the --skip-validate flag
    file_idx,         \* CLI decode: index of the file the loop is at
    written,          \* CLI decode: the CSV outputs written so far
    exit_code,        \* CLI decode: the process exit status, once it has ended
    cli_pc,           \* CLI decode: "loop", "exited", "crashed", "returned"
    csv_lines,        \* CSV: the table handed to write_csv
    csv_text,         \* CSV: the text in the file
    csv_result,       \* CSV: the table read_csv returned
    csv_pc            \* CSV: "start", "written", "read"

codec_vars == <<lines, byte_order, f, str_map, line_map, tampered,
                validate_result, result, pc>>
cli_vars == <<files, skip_validation, file_idx, written, exit_code, cli_pc>>
csv_vars == <<csv_lines, csv_text, csv_result, csv_pc>>
vars == <<codec_vars, cli_vars, csv_vars>>

-----------------------------------------------------------------------------
(* Bounds of the model.                                                    *)

MaxLines == 2        \* rows in a table
MaxFields == 2       \* fields in a table, all rows together
MaxFiles == 2        \* files in one CLI decode run
MaxText == 4         \* characters in a CSV text

-----------------------------------------------------------------------------
(* Small helpers.                                                          *)

Min(a, b) == IF a < b THEN a ELSE b

Max(a, b) == IF a > b THEN a ELSE b

RECURSIVE Reverse(_)
Reverse(s) == IF s = <<>> THEN <<>> ELSE Append(Reverse(Tail(s)), Head(s))

RECURSIVE Flatten(_)
Flatten(ss) == IF ss = <<>> THEN <<>> ELSE Head(ss) \o Flatten(Tail(ss))

Range(s) == {s[i] : i \in 1..Len(s)}

\* F(x), with x evaluated once
With(x, F(_)) == CHOOSE r \in {F(v) : v \in {x}} : TRUE

-----------------------------------------------------------------------------
(* ReadError (csb.py 8-17): the kinds and their numeric values.            *)

ReadError == {"SUCCESS", "INVALID_CSB_MAGIC", "INVALID_BYTE_ORDER",
              "INVALID_STRP_MAGIC", "INVALID_LNP_MAGIC", "INVALID_LNT_MAGIC",
              "INCONSISTENT_TOTAL_LINES", "INCONSISTENT_MAX_COLUMNS",
              "INCONSISTENT_TOTAL_FIELDS"}

ErrorValue(e) ==
    CASE e = "SUCCESS" -> 0
      [] e = "INVALID_CSB_MAGIC" -> 1
      [] e = "INVALID_BYTE_ORDER" -> 2
      [] e = "INVALID_STRP_MAGIC" -> 3
      [] e = "INVALID_LNP_MAGIC" -> 4
      [] e = "INVALID_LNT_MAGIC" -> 5
      [] e = "INCONSISTENT_TOTAL_LINES" -> 6
      [] e = "INCONSISTENT_MAX_COLUMNS" -> 7
      [] e = "INCONSISTENT_TOTAL_FIELDS" -> 8

-----------------------------------------------------------------------------
(* The literal byte strings of the format.                                 *)

CSB_MAGIC == <<67, 83, 66, 32>>       \* b"CSB "
STRP_MAGIC == <<83, 84, 82, 80>>      \* b"STRP"
LNP_MAGIC == <<76, 78, 80, 32>>       \* b"LNP "
LNT_MAGIC == <<76, 78, 84, 32>>       \* b"LNT "
LITTLE_ORDER == <<255, 254>>          \* b"\xFF\xFE"
BIG_ORDER == <<254, 255>>             \* b"\xFE\xFF"
RESERVED == <<0, 1, 255, 255, 0, 0>>  \* b"\x00\x01\xFF\xFF\x00\x00"

-----------------------------------------------------------------------------
(* struct.pack / struct.unpack for the formats "<I", ">I", "<Q", ">Q".     *)

RECURSIVE PackBig(_, _)
PackBig(n, v) ==
    IF n = 0 THEN <<>> ELSE Append(PackBig(n - 1, v \div 256), v % 256)

\* struct.pack(f"{byte_order}I" or "Q", v): n is the size, 4 or 8
pack(order, n, v) ==
    IF order = ">" THEN PackBig(n, v) ELSE Reverse(PackBig(n, v))

\* the number the k most significant of the bytes stand for
RECURSIVE Value(_, _, _)
Value(order, bytes, k) ==
    IF k = 0 THEN 0
    ELSE Value(order, bytes, k - 1) * 256
            + (IF order = ">" THEN bytes[k] ELSE bytes[Len(bytes) + 1 - k])

\* struct.unpack(...)[0] of the bytes a read returned: struct.error when the
\* read came up short
unpack(order, n, bytes) ==
    With(bytes, LAMBDA b :
        IF Len(b) # n
        THEN [raised |-> "struct.error", val |-> 0]
        ELSE [raised |-> "none", val |-> Value(order, b, n)])

-----------------------------------------------------------------------------
(* UTF-8 with errors="ignore".                                             *)

\* str.encode("utf-8", errors="ignore") of one code point: a lone surrogate
\* cannot be encoded and is dropped
EncodeChar(c) ==
    IF c < 128 THEN <<c>>
    ELSE IF c < 2048 THEN <<192 + (c \div 64), 128 + (c % 64)>>
    ELSE IF c >= 55296 /\ c <= 57343 THEN <<>>
    ELSE IF c < 65536
         THEN <<224 + (c \div 4096), 128 + ((c \div 64) % 64), 128 + (c % 64)>>
    ELSE <<240 + (c \div 262144), 128 + ((c \div 4096) % 64),
           128 + ((c \div 64) % 64), 128 + (c % 64)>>

RECURSIVE Utf8Encode(_)
Utf8Encode(string) ==
    IF string = <<>> THEN <<>>
    ELSE EncodeChar(Head(string)) \o Utf8Encode(Tail(string))

IsCont(b) == b >= 128 /\ b < 192

\* the well-formed sequence that starts at b[i], if any: its length n (0 when
\* b[i] starts no well-formed sequence) and its code point
DecodeHead(b, i) ==
    LET n == Len(b) - i + 1 IN
    IF b[i] < 128 THEN [n |-> 1, c |-> b[i]]
    ELSE IF b[i] >= 194 /\ b[i] < 224 /\ n >= 2 /\ IsCont(b[i + 1])
        THEN [n |-> 2, c |-> (b[i] - 192) * 64 + (b[i + 1] - 128)]
    ELSE IF b[i] >= 224 /\ b[i] < 240 /\ n >= 3 /\ IsCont(b[i + 1]) /\ IsCont(b[i + 2])
            /\ (b[i] = 224 => b[i + 1] >= 160) /\ (b[i] = 237 => b[i + 1] < 160)
        THEN [n |-> 3, c |-> (b[i] - 224) * 4096 + (b[i + 1] - 128) * 64
                              + (b[i + 2] - 128)]
    ELSE IF b[i] >= 240 /\ b[i] < 245 /\ n >= 4 /\ IsCont(b[i + 1]) /\ IsCont(b[i + 2])
            /\ IsCont(b[i + 3]) /\ (b[i] = 240 => b[i + 1] >= 144)
            /\ (b[i] = 244 => b[i + 1] < 144)
        THEN [n |-> 4, c |-> (b[i] - 240) * 262144 + (b[i + 1] - 128) * 4096
                              + (b[i + 2] - 128) * 64 + (b[i + 3] - 128)]
    ELSE [n |-> 0, c |-> 0]

\* the decoding of b[i..]
RECURSIVE Utf8DecodeFrom(_, _)
Utf8DecodeFrom(b, i) ==
    IF i > Len(b) THEN <<>>
    ELSE With(DecodeHead(b, i), LAMBDA h :
            IF h.n = 0 THEN Utf8DecodeFrom(b, i + 1)
            ELSE <<h.c>> \o Utf8DecodeFrom(b, i + h.n))

\* faulty variant of Utf8Decode: the bytes are taken as Latin-1, one character
\* for each byte
Utf8Decode_Latin1(bytes) == bytes

\* bytes.decode("utf-8", errors="ignore"): bytes that belong to no well-formed
\* sequence are dropped
Utf8Decode(bytes) == With(bytes, LAMBDA b : Utf8DecodeFrom(b, 1))

-----------------------------------------------------------------------------
(* Reading from a stream: data is the file's bytes, pos the position.      *)

\* f.read(n) at position pos: the bytes (fewer at the end of the file)
ReadBytes(data, pos, n) ==
    IF pos >= Len(data) THEN <<>>
    ELSE SubSeq(data, pos + 1, Min(pos + n, Len(data)))

\* f.tell() after f.read(n) at position pos
AfterRead(data, pos, n) ==
    IF pos >= Len(data) THEN pos ELSE Min(pos + n, Len(data))

\* struct.unpack(f"{byte_order}I" or "Q", f.read(n))[0] at position pos
ReadInt(data, pos, order, n) ==
    With(unpack(order, n, ReadBytes(data, pos, n)), LAMBDA u :
        [raised |-> u.raised, val |-> u.val, pos |-> AfterRead(data, pos, n)])

\* the loop of read_c_string: where the next NUL is; at the end of the file
\* f.read(1) is b"" and byte[0] raises IndexError
RECURSIVE CStringEnd(_, _)
CStringEnd(data, pos) ==
    IF pos >= Len(data) THEN [raised |-> "IndexError", pos |-> pos]
    ELSE IF data[pos + 1] = 0 THEN [raised |-> "none", pos |-> pos]
    ELSE CStringEnd(data, pos + 1)

\* read_c_string at position pos: the bytes before the next NUL, decoded, and
\* the position after that NUL
read_c_string(data, pos) ==
    With(CStringEnd(data, pos), LAMBDA e :
        IF e.raised # "none"
        THEN [raised |-> e.raised, string |-> <<>>, pos |-> e.pos]
        ELSE [raised |-> "none", string |-> Utf8Decode(SubSeq(data, pos + 1, e.pos)),
              pos |-> e.pos + 1])

\* write_c_string: the bytes it writes
write_c_string(string) == Utf8Encode(string) \o <<0>>

-----------------------------------------------------------------------------
(* The writer.  `tell` is f.tell() when the function is entered.           *)

RECURSIVE Dedup(_, _)
Dedup(strs, seen) ==
    IF strs = <<>> THEN seen
    ELSE With(IF Head(strs) \in Range(seen) THEN seen ELSE Append(seen, Head(strs)),
              LAMBDA next : Dedup(Tail(strs), next))

\* faulty variant of get_unique_strs: every occurrence is kept
get_unique_strs_NoDedup(table) == Flatten(table)

\* list(dict.fromkeys(strs)) of all fields, rows top to bottom, fields left
\* to right: the first occurrence of each string, in order
get_unique_strs(table) == Dedup(Flatten(table), <<>>)

\* faulty variant of StrpLoop: the address leaves out the 4 bytes of the
\* block length that is written before str_block
RECURSIVE StrpLoop_NoLength(_, _, _, _, _)
StrpLoop_NoLength(strings, i, ftell, block, map) ==
    IF i > Len(strings) THEN [block |-> block, str_map |-> map]
    ELSE With([pos |-> ftell + Len(block),
               block |-> block \o write_c_string(strings[i])],
              LAMBDA w : StrpLoop_NoLength(strings, i + 1, ftell, w.block,
                                           (strings[i] :> w.pos) @@ map))

\* the loop of write_strp over strings[i..]: block is str_block's content so
\* far, map the str_map so far; ftell is f.tell() (after the magic was written)
RECURSIVE StrpLoop(_, _, _, _, _)
StrpLoop(strings, i, ftell, block, map) ==
    IF i > Len(strings) THEN [block |-> block, str_map |-> map]
    ELSE With([pos |-> ftell + Len(block) + 4,
               block |-> block \o write_c_string(strings[i])],
              LAMBDA w : StrpLoop(strings, i + 1, ftell, w.block,
                                  (strings[i] :> w.pos) @@ map))

write_strp(tell, order, table) ==
    With(get_unique_strs(table), LAMBDA strings :
    With(StrpLoop(strings, 1, tell + 4, pack(order, 8, Len(strings)), <<>>), LAMBDA r :
        [bytes |-> STRP_MAGIC \o pack(order, 4, Len(r.block) + 8) \o r.block,
         str_map |-> r.str_map]))

\* the inner loop of write_lnp: one packed address per field of the row
RECURSIVE FieldAddrs(_, _, _)
FieldAddrs(line, order, map) ==
    IF line = <<>> THEN <<>>
    ELSE pack(order, 8, map[Head(line)]) \o FieldAddrs(Tail(line), order, map)

\* the loop of write_lnp over table[i..]
RECURSIVE LnpLoop(_, _, _, _, _, _, _)
LnpLoop(table, i, ftell, order, map, block, lmap) ==
    IF i > Len(table) THEN [block |-> block, line_map |-> lmap]
    ELSE With(ftell + Len(block) + 4, LAMBDA start_pos :
         With(block \o pack(order, 8, Len(table[i]))
                    \o pack(order, 8, start_pos + 16)
                    \o FieldAddrs(table[i], order, map),
              LAMBDA next :
                LnpLoop(table, i + 1, ftell, order, map, next, Append(lmap, start_pos))))

write_lnp(tell, order, table, map) ==
    With(LnpLoop(table, 1, tell + 4, order, map, pack(order, 8, Len(table)), <<>>),
         LAMBDA r :
            [bytes |-> LNP_MAGIC \o pack(order, 4, Len(r.block) + 8) \o r.block,
             line_map |-> r.line_map])

RECURSIVE PackAll(_, _)
PackAll(order, addrs) ==
    IF addrs = <<>> THEN <<>>
    ELSE pack(order, 8, Head(addrs)) \o PackAll(order, Tail(addrs))

write_lnt(order, table, lmap) ==
    With(pack(order, 8, Len(table)) \o PackAll(order, lmap), LAMBDA line_block_data :
        LNT_MAGIC \o pack(order, 4, Len(line_block_data) + 8) \o line_block_data)

RECURSIVE SumLens(_)
SumLens(table) ==
    IF table = <<>> THEN 0 ELSE Len(Head(table)) + SumLens(Tail(table))

RECURSIVE MaxLen(_)
MaxLen(table) ==
    IF table = <<>> THEN 0 ELSE Max(Len(Head(table)), MaxLen(Tail(table)))

\* the header write_csb writes before the blocks
write_header(table, order) ==
    CSB_MAGIC \o (IF order = "<" THEN LITTLE_ORDER ELSE BIG_ORDER) \o RESERVED
        \o pack(order, 4, SumLens(table))
        \o pack(order, 4, MaxLen(table))
        \o pack(order, 4, Len(table))

\* write_csb: the file's bytes, with the two maps and the offsets of the
\* three blocks
write_csb(table, order) ==
    With(write_header(table, order), LAMBDA header :
    With(write_strp(Len(header), order, table), LAMBDA strp :
    With(write_lnp(Len(header) + Len(strp.bytes), order, table, strp.str_map),
         LAMBDA lnp :
            [bytes |-> header \o strp.bytes \o lnp.bytes
                        \o write_lnt(order, table, lnp.line_map),
             str_map |-> strp.str_map,
             line_map |-> lnp.line_map,
             strp_pos |-> Len(header),
             lnp_pos |-> Len(header) + Len(strp.bytes),
             lnt_pos |-> Len(header) + Len(strp.bytes) + Len(lnp.bytes)])))

-----------------------------------------------------------------------------
(* The reader.  A block reader returns `none` (no value) with `err`, or    *)
(* `raised` names the exception that left it.                              *)

\* a block reader leaves without a value: with an error kind, or raising
NoBlock(e, x) ==
    [raised |-> x, none |-> TRUE, err |-> e, strings |-> <<>>, lines |-> <<>>, pos |-> 0]

\* block_length and the count that follow the magic of every block
BlockHead(data, start_pos, order) ==
    With(ReadInt(data, AfterRead(data, start_pos, 4), order, 4), LAMBDA block_length :
    With(ReadInt(data, block_length.pos, order, 8), LAMBDA count :
        [raised |-> IF block_length.raised # "none" THEN block_length.raised
                    ELSE count.raised,
         end_pos |-> start_pos + block_length.val,
         count |-> count.val,
         pos |-> count.pos]))

\* the loop of read_strp: count strings are still to be read
RECURSIVE ReadStrings(_, _, _, _)
ReadStrings(data, pos, count, strings) ==
    IF count = 0 THEN [raised |-> "none", strings |-> strings, pos |-> pos]
    ELSE With(read_c_string(data, pos), LAMBDA s :
            IF s.raised # "none"
            THEN [raised |-> s.raised, strings |-> strings, pos |-> s.pos]
            ELSE With((pos :> s.string) @@ strings, LAMBDA next :
                    ReadStrings(data, s.pos, count - 1, next)))

read_strp(data, start_pos, order) ==
    IF ReadBytes(data, start_pos, 4) # STRP_MAGIC
    THEN NoBlock("INVALID_STRP_MAGIC", "none")
    ELSE With(BlockHead(data, start_pos, order), LAMBDA h :
            IF h.raised # "none" THEN NoBlock("SUCCESS", h.raised)
            ELSE With(ReadStrings(data, h.pos, h.count, <<>>), LAMBDA loop :
                    IF loop.raised # "none" THEN NoBlock("SUCCESS", loop.raised)
                    ELSE [raised |-> "none", none |-> FALSE, err |-> "SUCCESS",
                          strings |-> loop.strings, pos |-> h.end_pos]))

\* the inner loop of read_lnp: count addresses are still to be read
RECURSIVE ReadFields(_, _, _, _, _, _)
ReadFields(data, pos, order, count, map, line) ==
    IF count = 0 THEN [raised |-> "none", line |-> line, pos |-> pos]
    ELSE With(ReadInt(data, pos, order, 8), LAMBDA str_pos :
            IF str_pos.raised # "none"
            THEN [raised |-> str_pos.raised, line |-> line, pos |-> str_pos.pos]
            ELSE IF str_pos.val \notin DOMAIN map
            THEN [raised |-> "KeyError", line |-> line, pos |-> str_pos.pos]
            ELSE With(Append(line, map[str_pos.val]), LAMBDA next :
                    ReadFields(data, str_pos.pos, order, count - 1, map, next)))

\* the outer loop of read_lnp: count records are still to be read
RECURSIVE ReadRecords(_, _, _, _, _, _)
ReadRecords(data, pos, order, count, map, recs) ==
    IF count = 0 THEN [raised |-> "none", lines |-> recs, pos |-> pos]
    ELSE With(ReadInt(data, pos, order, 8), LAMBDA column_count :
         With(ReadInt(data, column_count.pos, order, 8), LAMBDA line_start_pos :
            IF column_count.raised # "none"
            THEN [raised |-> column_count.raised, lines |-> recs, pos |-> pos]
            ELSE IF line_start_pos.raised # "none"
            THEN [raised |-> line_start_pos.raised, lines |-> recs, pos |-> pos]
            ELSE With(ReadFields(data, line_start_pos.val, order, column_count.val,
                                 map, <<>>),
                      LAMBDA row :
                        IF row.raised # "none"
                        THEN [raised |-> row.raised, lines |-> recs, pos |-> pos]
                        ELSE With((pos :> row.line) @@ recs, LAMBDA next :
                                ReadRecords(data, row.pos, order, count - 1, map, next)))))

read_lnp(data, start_pos, order, map) ==
    IF ReadBytes(data, start_pos, 4) # LNP_MAGIC
    THEN NoBlock("INVALID_LNP_MAGIC", "none")
    ELSE With(BlockHead(data, start_pos, order), LAMBDA h :
            IF h.raised # "none" THEN NoBlock("SUCCESS", h.raised)
            ELSE With(ReadRecords(data, h.pos, order, h.count, map, <<>>), LAMBDA loop :
                    IF loop.raised # "none" THEN NoBlock("SUCCESS", loop.raised)
                    ELSE [raised |-> "none", none |-> FALSE, err |-> "SUCCESS",
                          lines |-> loop.lines, pos |-> h.end_pos]))

\* faulty variant of ReadOrder: the rows come out in the order of their
\* records in the LineIndex block, whatever the entries say
ReadOrder_BlockOrder(data, pos, order, count, lmap, out) ==
    LET RECURSIVE Ascending(_)
        Ascending(addrs) ==
            IF addrs = {} THEN <<>>
            ELSE LET a == CHOOSE x \in addrs : \A y \in addrs : x <= y
                 IN  <<lmap[a]>> \o Ascending(addrs \ {a})
        rows == Ascending(DOMAIN lmap)
    IN  [raised |-> "none",
         lines |-> SubSeq(rows, 1, Min(count, Len(rows))),
         pos |-> pos + 8 * count]

\* the loop of read_lnt: count entries are still to be read
RECURSIVE ReadOrder(_, _, _, _, _, _)
ReadOrder(data, pos, order, count, lmap, out) ==
    IF count = 0 THEN [raised |-> "none", lines |-> out, pos |-> pos]
    ELSE With(ReadInt(data, pos, order, 8), LAMBDA line_pos :
            IF line_pos.raised # "none"
            THEN [raised |-> line_pos.raised, lines |-> out, pos |-> line_pos.pos]
            ELSE IF line_pos.val \notin DOMAIN lmap
            THEN [raised |-> "KeyError", lines |-> out, pos |-> line_pos.pos]
            ELSE With(Append(out, lmap[line_pos.val]), LAMBDA next :
                    ReadOrder(data, line_pos.pos, order, count - 1, lmap, next)))

read_lnt(data, start_pos, order, lmap) ==
    IF ReadBytes(data, start_pos, 4) # LNT_MAGIC
    THEN NoBlock("INVALID_LNT_MAGIC", "none")
    ELSE With(BlockHead(data, start_pos, order), LAMBDA h :
            IF h.raised # "none" THEN NoBlock("SUCCESS", h.raised)
            ELSE With(ReadOrder(data, h.pos, order, h.count, lmap, <<>>), LAMBDA loop :
                    IF loop.raised # "none" THEN NoBlock("SUCCESS", loop.raised)
                    ELSE [raised |-> "none", none |-> FALSE, err |-> "SUCCESS",
                          lines |-> loop.lines, pos |-> h.end_pos]))

\* faulty variant of validate: max_columns is compared before total_fields
validate_ColumnsFirst(table, total_fields, max_columns, total_lines) ==
    IF Len(table) # total_lines THEN "INCONSISTENT_TOTAL_LINES"
    ELSE IF MaxLen(table) # max_columns THEN "INCONSISTENT_MAX_COLUMNS"
    ELSE IF SumLens(table) # total_fields THEN "INCONSISTENT_TOTAL_FIELDS"
    ELSE "SUCCESS"

\* faulty variant of validate: total_lines is not compared
validate_NoLines(table, total_fields, max_columns, total_lines) ==
    IF SumLens(table) # total_fields THEN "INCONSISTENT_TOTAL_FIELDS"
    ELSE IF MaxLen(table) # max_columns THEN "INCONSISTENT_MAX_COLUMNS"
    ELSE "SUCCESS"

\* the post-check of read_csb: the error it returns, or SUCCESS
validate(table, total_fields, max_columns, total_lines) ==
    IF Len(table) # total_lines THEN "INCONSISTENT_TOTAL_LINES"
    ELSE IF SumLens(table) # total_fields THEN "INCONSISTENT_TOTAL_FIELDS"
    ELSE IF MaxLen(table) # max_columns THEN "INCONSISTENT_MAX_COLUMNS"
    ELSE "SUCCESS"

\* read_csb returns (None, e)
Failed(e) == [raised |-> "none", none |-> TRUE, lines |-> <<>>, err |-> e]

\* read_csb is left by exception x
Raised(x) == [raised |-> x, none |-> TRUE, lines |-> <<>>, err |-> "SUCCESS"]

\* the three counts of the header, read with the byte order the marker gave
read_counts(data, order) ==
    With(ReadInt(data, AfterRead(data, AfterRead(data, 4, 2), 6), order, 4),
         LAMBDA total_fields :
    With(ReadInt(data, total_fields.pos, order, 4), LAMBDA max_columns :
    With(ReadInt(data, max_columns.pos, order, 4), LAMBDA total_lines :
        [raised |-> IF total_fields.raised # "none" THEN total_fields.raised
                    ELSE IF max_columns.raised # "none" THEN max_columns.raised
                    ELSE total_lines.raised,
         total_fields |-> total_fields.val,
         max_columns |-> max_columns.val,
         total_lines |-> total_lines.val,
         pos |-> total_lines.pos])))

\* faulty variant of read_blocks: a LineIndex block that fails is reported
\* with the LineOrder block's error kind
read_blocks_LnpAsLnt(data, pos, order) ==
    With(read_strp(data, pos, order), LAMBDA strp :
        IF strp.none THEN strp
        ELSE With(read_lnp(data, strp.pos, order, strp.strings), LAMBDA lnp :
                IF lnp.none
                THEN [lnp EXCEPT !.err = IF @ = "SUCCESS" THEN @ ELSE "INVALID_LNT_MAGIC"]
                ELSE read_lnt(data, lnp.pos, order, lnp.lines)))

\* the three blocks, each resolved against the map of the one before it
read_blocks(data, pos, order) ==
    With(read_strp(data, pos, order), LAMBDA strp :
        IF strp.none THEN strp
        ELSE With(read_lnp(data, strp.pos, order, strp.strings), LAMBDA lnp :
                IF lnp.none THEN lnp
                ELSE read_lnt(data, lnp.pos, order, lnp.lines)))

\* read_csb(f, validate_result) on a file holding data: (lines, err), where
\* none says that lines is None, or the exception that left the call
read_csb(data, validate_flag) ==
    With(ReadBytes(data, 4, 2), LAMBDA order_bytes :
        IF ReadBytes(data, 0, 4) # CSB_MAGIC THEN Failed("INVALID_CSB_MAGIC")
        ELSE IF order_bytes \notin {LITTLE_ORDER, BIG_ORDER}
        THEN Failed("INVALID_BYTE_ORDER")
        ELSE With(IF order_bytes = LITTLE_ORDER THEN "<" ELSE ">", LAMBDA order :
             With(read_counts(data, order), LAMBDA h :
                IF h.raised # "none" THEN Raised(h.raised)
                ELSE With(read_blocks(data, h.pos, order), LAMBDA b :
                        IF b.raised # "none" THEN Raised(b.raised)
                        ELSE IF b.none THEN Failed(b.err)
                        ELSE With(IF validate_flag
                                  THEN validate(b.lines, h.total_fields, h.max_columns,
                                                h.total_lines)
                                  ELSE "SUCCESS",
                                  LAMBDA check :
                                    IF check # "SUCCESS" THEN Failed(check)
                                    ELSE [raised |-> "none", none |-> FALSE,
                                          lines |-> b.lines, err |-> "SUCCESS"])))))

-----------------------------------------------------------------------------
(* The codec scenario: a table is written with write_csb, the file may be  *)
(* altered on disk, and read_csb reads it.                                 *)

\* "" , "a" and "éb" (the second string takes three bytes in UTF-8)
Strs == {<<>>, <<97>>, <<233, 98>>}

RowsUpTo(n) == UNION {[1..k -> Strs] : k \in 0..n}

Tables ==
    {t \in UNION {[1..r -> RowsUpTo(MaxFields)] : r \in 0..MaxLines} :
        SumLens(t) <= MaxFields}

Tags == {"csb", "order", "strp", "lnp", "lnt"}

Counts == {"total_fields", "max_columns", "total_lines"}

Untampered == [tags |-> {}, counts |-> {}, order |-> FALSE, dangling |-> "none"]

NoResult == [raised |-> "none", none |-> TRUE, lines |-> <<>>, err |-> "SUCCESS"]

\* data with the bytes at offset pos overwritten
SetBytes(data, pos, bytes) ==
    SubSeq(data, 1, pos) \o bytes \o SubSeq(data, pos + Len(bytes) + 1, Len(data))

\* where the tag is in a file write_csb wrote (w is write_csb's record)
TagOffset(w, tag) ==
    CASE tag = "csb" -> 0
      [] tag = "order" -> 4
      [] tag = "strp" -> w.strp_pos
      [] tag = "lnp" -> w.lnp_pos
      [] tag = "lnt" -> w.lnt_pos

TagPos(tag) == TagOffset(write_csb(lines, byte_order), tag)

\* what overwrites a tag: the first byte of a magic, or the whole order marker
CorruptBytes(tag) == IF tag = "order" THEN <<255, 255>> ELSE <<88>>

\* where the count is in the header
CountPos(count) ==
    CASE count = "total_fields" -> 12
      [] count = "max_columns" -> 16
      [] count = "total_lines" -> 20

RECURSIVE BumpCounts(_, _, _)
BumpCounts(data, order, counts) ==
    IF counts = {} THEN data
    ELSE LET c == CHOOSE x \in counts : TRUE
             old == ReadInt(data, CountPos(c), order, 4).val
         IN  BumpCounts(SetBytes(data, CountPos(c), pack(order, 4, old + 1)),
                        order, counts \ {c})

CodecIdle ==
    /\ lines = <<>> /\ byte_order = "<" /\ f = <<>> /\ str_map = <<>>
    /\ line_map = <<>> /\ tampered = Untampered /\ validate_result = FALSE
    /\ result = NoResult /\ pc = "idle"

CliIdle ==
    /\ files = <<>> /\ skip_validation = FALSE /\ file_idx = 1 /\ written = <<>>
    /\ exit_code = 0 /\ cli_pc = "idle"

CsvIdle ==
    /\ csv_lines = <<>> /\ csv_text = <<>> /\ csv_result = <<>> /\ csv_pc = "idle"

Init ==
    /\ lines \in Tables
    /\ byte_order \in {"<", ">"}
    /\ f = <<>> /\ str_map = <<>> /\ line_map = <<>>
    /\ tampered = Untampered
    /\ validate_result = FALSE
    /\ result = NoResult
    /\ pc = "start"
    /\ CliIdle /\ CsvIdle

\* write_csb(f, lines, byte_order)
WriteCsb ==
    /\ pc = "start"
    /\ \E w \in {write_csb(lines, byte_order)} :
        /\ f' = w.bytes
        /\ str_map' = w.str_map
        /\ line_map' = w.line_map
    /\ pc' = "written"
    /\ UNCHANGED <<lines, byte_order, tampered, validate_result, result>>
    /\ UNCHANGED <<cli_vars, csv_vars>>

\* the file on disk changes: the first byte of a magic tag, or the order
\* marker, is overwritten with a value the format does not know
CorruptTag(tag) ==
    /\ pc = "written"
    /\ tag \notin tampered.tags
    /\ tampered.counts \in {{}, Counts}
    /\ f' = SetBytes(f, TagPos(tag), CorruptBytes(tag))
    /\ tampered' = [tampered EXCEPT !.tags = @ \cup {tag}]
    /\ UNCHANGED <<lines, byte_order, str_map, line_map, validate_result, result, pc>>
    /\ UNCHANGED <<cli_vars, csv_vars>>

\* the file on disk changes: some of the header's counts are raised by one
TamperHeader(counts) ==
    /\ pc = "written"
    /\ tampered = Untampered
    /\ counts # {}
    /\ f' = BumpCounts(f, byte_order, counts)
    /\ tampered' = [tampered EXCEPT !.counts = counts]
    /\ UNCHANGED <<lines, byte_order, str_map, line_map, validate_result, result, pc>>
    /\ UNCHANGED <<cli_vars, csv_vars>>

\* the file on disk changes: the LineOrder entries are replaced by other
\* addresses of LineIndex records
RewriteOrder(entries) ==
    /\ pc = "written"
    /\ tampered = Untampered
    /\ entries # line_map
    /\ f' = SetBytes(f, TagPos("lnt") + 16, PackAll(byte_order, entries))
    /\ tampered' = [tampered EXCEPT !.order = TRUE]
    /\ UNCHANGED <<lines, byte_order, str_map, line_map, validate_result, result, pc>>
    /\ UNCHANGED <<cli_vars, csv_vars>>

\* the file on disk changes: LineOrder entry i becomes an address at which no
\* LineIndex record starts
DangleOrder(i, addr) ==
    /\ pc = "written"
    /\ tampered = Untampered
    /\ addr \notin Range(line_map)
    /\ f' = SetBytes(f, TagPos("lnt") + 16 + 8 * (i - 1), pack(byte_order, 8, addr))
    /\ tampered' = [tampered EXCEPT !.dangling = "lnt"]
    /\ UNCHANGED <<lines, byte_order, str_map, line_map, validate_result, result, pc>>
    /\ UNCHANGED <<cli_vars, csv_vars>>

\* the file on disk changes: field j of LineIndex record i becomes an address
\* at which no string of the pool starts
DangleField(i, j, addr) ==
    /\ pc = "written"
    /\ tampered = Untampered
    /\ addr \notin {str_map[s] : s \in DOMAIN str_map}
    /\ f' = SetBytes(f, line_map[i] + 16 + 8 * (j - 1), pack(byte_order, 8, addr))
    /\ tampered' = [tampered EXCEPT !.dangling = "lnp"]
    /\ UNCHANGED <<lines, byte_order, str_map, line_map, validate_result, result, pc>>
    /\ UNCHANGED <<cli_vars, csv_vars>>

\* read_csb(f, validate_result)
ReadCsb(flag) ==
    /\ pc = "written"
    /\ result' = read_csb(f, flag)
    /\ validate_result' = flag
    /\ pc' = "read"
    /\ UNCHANGED <<lines, byte_order, f, str_map, line_map, tampered>>
    /\ UNCHANGED <<cli_vars, csv_vars>>

\* write, alter the addresses stored in the file, read
Next ==
    \/ WriteCsb
    \/ /\ pc = "written"
       /\ \E entries \in [1..Len(line_map) -> Range(line_map)] : RewriteOrder(entries)
    \/ /\ pc = "written"
       /\ \E i \in 1..Len(line_map) : \E addr \in {0, line_map[i] + 8} :
             DangleOrder(i, addr)
    \/ /\ pc = "written"
       /\ \E i \in 1..Len(lines) : \E j \in 1..Len(lines[i]) :
             \E addr \in {0, str_map[lines[i][j]] + 1} : DangleField(i, j, addr)
    \/ \E flag \in BOOLEAN : ReadCsb(flag)

Spec == Init /\ [][Next]_vars

\* write, alter the tags and the header's counts, read
NextCorrupt ==
    \/ WriteCsb
    \/ \E tag \in Tags : CorruptTag(tag)
    \/ \E counts \in SUBSET Counts : TamperHeader(counts)
    \/ \E flag \in BOOLEAN : ReadCsb(flag)

SpecCorrupt == Init /\ [][NextCorrupt]_vars

-----------------------------------------------------------------------------
(* The CSV text form (csb.py 300-308).  A text is a sequence of code       *)
(* points; 44 is the comma and 10 the newline.                             *)

RECURSIVE Join(_, _)
\* sep.join(parts)
Join(sep, parts) ==
    IF parts = <<>> THEN <<>>
    ELSE IF Len(parts) = 1 THEN parts[1]
    ELSE parts[1] \o <<sep>> \o Join(sep, Tail(parts))

RECURSIVE Split(_, _, _)
\* text.split(sep), cur being the part collected so far: one part more than
\* there are separators
Split(text, sep, cur) ==
    IF text = <<>> THEN <<cur>>
    ELSE IF Head(text) = sep THEN <<cur>> \o Split(Tail(text), sep, <<>>)
    ELSE Split(Tail(text), sep, Append(cur, Head(text)))

\* faulty variant of write_csv: every row ends with a newline, the last too
write_csv_TrailingNewline(table) ==
    Join(10, [i \in 1..Len(table) |-> Join(44, table[i])]) \o <<10>>

\* the text write_csv writes
write_csv(table) == Join(10, [i \in 1..Len(table) |-> Join(44, table[i])])

\* the table read_csv returns for the text f.read() gave
read_csv(text) ==
    LET rows == Split(text, 10, <<>>) IN
    [i \in 1..Len(rows) |-> Split(rows[i], 44, <<>>)]

CsvChars == {97, 44, 10}

\* "", "a", "ab", "," , "a,b" and a newline
CsvStrs == {<<>>, <<97>>, <<97, 98>>, <<44>>, <<10>>}

\* the tables of r rows that have at most n fields, all rows together
RECURSIVE CsvTablesOf(_, _)
CsvTablesOf(r, n) ==
    IF r = 0 THEN {<<>>}
    ELSE UNION {{<<row>> \o t : t \in CsvTablesOf(r - 1, n - Len(row))} :
                  row \in UNION {[1..k -> CsvStrs] : k \in 0..n}}

CsvTables == UNION {CsvTablesOf(r, MaxFields) : r \in 0..MaxLines}

Texts == UNION {[1..n -> CsvChars] : n \in 0..MaxText}

\* either a table is about to be written as CSV, or a CSV file is given
InitCsv ==
    /\ \E c \in {<<t, <<>>, "start">> : t \in CsvTables}
                    \cup {<<<<>>, x, "given">> : x \in Texts} :
          csv_lines = c[1] /\ csv_text = c[2] /\ csv_pc = c[3]
    /\ csv_result = <<>>
    /\ CodecIdle /\ CliIdle

\* write_csv(f, lines)
WriteCsv ==
    /\ csv_pc = "start"
    /\ csv_text' = write_csv(csv_lines)
    /\ csv_pc' = "written"
    /\ UNCHANGED <<csv_lines, csv_result, codec_vars, cli_vars>>

\* read_csv(f) on the text write_csv wrote
ReadBackCsv ==
    /\ csv_pc = "written"
    /\ csv_result' = read_csv(csv_text)
    /\ csv_pc' = "read_back"
    /\ UNCHANGED <<csv_lines, csv_text, codec_vars, cli_vars>>

\* read_csv(f) on a given text
ReadGivenCsv ==
    /\ csv_pc = "given"
    /\ csv_result' = read_csv(csv_text)
    /\ csv_pc' = "read"
    /\ UNCHANGED <<csv_lines, csv_text, codec_vars, cli_vars>>

NextCsv == WriteCsv \/ ReadBackCsv \/ ReadGivenCsv

SpecCsv == InitCsv /\ [][NextCsv]_vars

-----------------------------------------------------------------------------
(* The decode action of the command line (__main__.py 49-76).              *)

\* [["a", "éb"], ["a"]]
SampleTable == <<<<<<97>>, <<233, 98>>>>, <<<<97>>>>>>

SampleFile == write_csb(SampleTable, "<")

\* the files of a run: two that decode, one for each error kind, one whose
\* LineOrder entry dangles and an empty file
FileChoices ==
    {SampleFile.bytes, write_csb(<<>>, ">").bytes, <<>>}
        \cup {SetBytes(SampleFile.bytes, TagOffset(SampleFile, tag), CorruptBytes(tag)) :
                tag \in Tags}
        \cup {BumpCounts(SampleFile.bytes, "<", {c}) : c \in Counts}
        \cup {SetBytes(SampleFile.bytes, SampleFile.lnt_pos + 16, pack("<", 8, 0))}

InitCli ==
    /\ files \in UNION {[1..n -> FileChoices] : n \in 0..MaxFiles}
    /\ skip_validation \in BOOLEAN
    /\ file_idx = 1
    /\ written = <<>>
    /\ exit_code = 0
    /\ cli_pc = "loop"
    /\ CodecIdle /\ CsvIdle

\* faulty variant of DecodeFile: a file that gives no table is passed over and
\* the loop goes on with the next file
DecodeFile_Continue ==
    /\ cli_pc = "loop"
    /\ file_idx <= Len(files)
    /\ \E r \in {read_csb(files[file_idx], ~skip_validation)} :
        IF r.raised # "none"
        THEN /\ cli_pc' = "crashed"
             /\ exit_code' = 1
             /\ UNCHANGED <<file_idx, written>>
        ELSE IF r.none
        THEN /\ file_idx' = file_idx + 1
             /\ UNCHANGED <<cli_pc, exit_code, written>>
        ELSE /\ written' = Append(written, [file |-> file_idx, text |-> write_csv(r.lines)])
             /\ file_idx' = file_idx + 1
             /\ UNCHANGED <<cli_pc, exit_code>>
    /\ UNCHANGED <<files, skip_validation, codec_vars, csv_vars>>

\* one pass of decode's loop: read the file; leave the process when no table
\* came back, else write the CSV file
DecodeFile ==
    /\ cli_pc = "loop"
    /\ file_idx <= Len(files)
    /\ \E r \in {read_csb(files[file_idx], ~skip_validation)} :
        IF r.raised # "none"
        THEN /\ cli_pc' = "crashed"
             /\ exit_code' = 1
             /\ UNCHANGED <<file_idx, written>>
        ELSE IF r.none
        THEN /\ cli_pc' = "exited"
             /\ exit_code' = ErrorValue(r.err)
             /\ UNCHANGED <<file_idx, written>>
        ELSE /\ written' = Append(written, [file |-> file_idx, text |-> write_csv(r.lines)])
             /\ file_idx' = file_idx + 1
             /\ UNCHANGED <<cli_pc, exit_code>>
    /\ UNCHANGED <<files, skip_validation, codec_vars, csv_vars>>

\* the loop is over: decode returns and the process ends with status 0
DecodeReturn ==
    /\ cli_pc = "loop"
    /\ file_idx > Len(files)
    /\ cli_pc' = "returned"
    /\ exit_code' = 0
    /\ UNCHANGED <<files, skip_validation, file_idx, written, codec_vars, csv_vars>>

NextCli == DecodeFile \/ DecodeReturn

SpecCli == InitCli /\ [][NextCli]_vars

-----------------------------------------------------------------------------
(* What the file holds, read back from its bytes.                          *)

\* the file is the one write_csb wrote, and read_csb has or has not read it
Canonical == pc \in {"written", "read"} /\ tampered = Untampered

\* the offsets of the blocks in the file
Layout == write_csb(lines, byte_order)

\* the count a block declares
DeclaredCount(block_pos) == ReadInt(f, block_pos + 8, byte_order, 8).val

\* the strings the StringPool block stores, in the order they lie in the file
PoolInFile ==
    LET r == ReadStrings(f, Layout.strp_pos + 16, DeclaredCount(Layout.strp_pos), <<>>)
        RECURSIVE Sorted(_)
        Sorted(addrs) ==
            IF addrs = {} THEN <<>>
            ELSE LET a == CHOOSE x \in addrs : \A y \in addrs : x <= y
                 IN  <<r.strings[a]>> \o Sorted(addrs \ {a})
    IN  [strings |-> Sorted(DOMAIN r.strings), end_pos |-> r.pos]

\* entry i of the LineOrder block
LntEntry(i) == ReadInt(f, Layout.lnt_pos + 16 + 8 * (i - 1), byte_order, 8).val

\* all fields of the table, rows top to bottom, fields left to right
AllFields == Flatten(lines)

\* where string s occurs first among all fields
FirstAt(s) == CHOOSE i \in 1..Len(AllFields) :
                /\ AllFields[i] = s
                /\ \A j \in 1..(i - 1) : AllFields[j] # s

InconsistentKind(count) ==
    CASE count = "total_lines" -> "INCONSISTENT_TOTAL_LINES"
      [] count = "max_columns" -> "INCONSISTENT_MAX_COLUMNS"
      [] count = "total_fields" -> "INCONSISTENT_TOTAL_FIELDS"

TagKind(tag) ==
    CASE tag = "csb" -> "INVALID_CSB_MAGIC"
      [] tag = "order" -> "INVALID_BYTE_ORDER"
      [] tag = "strp" -> "INVALID_STRP_MAGIC"
      [] tag = "lnp" -> "INVALID_LNP_MAGIC"
      [] tag = "lnt" -> "INVALID_LNT_MAGIC"

\* the corrupted tag read_csb comes to first
EarliestTag(tags) ==
    IF "csb" \in tags THEN "csb"
    ELSE IF "order" \in tags THEN "order"
    ELSE IF "strp" \in tags THEN "strp"
    ELSE IF "lnp" \in tags THEN "lnp"
    ELSE "lnt"

-----------------------------------------------------------------------------
(* The claims.                                                             *)

\* C1: read_csb with validate_result=True on the bytes write_csb produced
\* returns (rows, SUCCESS) with rows equal to the table written, in row
\* count, row order, field count and field content, for both byte orders.
C1_RoundTrip ==
    (pc = "read" /\ tampered = Untampered /\ validate_result)
        => /\ result.raised = "none"
           /\ ~result.none
           /\ result.err = "SUCCESS"
           /\ result.lines = lines

\* a big-endian round trip of a ragged table with an empty row, an empty
\* string and a multi-byte string
C1_Witness ==
    /\ pc = "read" /\ tampered = Untampered /\ validate_result
    /\ byte_order = ">"
    /\ lines = <<<<<<233, 98>>, <<>>>>, <<>>>>
    /\ result.lines = lines

\* C2 as the spec states it: the counts are checked in the order total_lines,
\* max_columns, total_fields, and the first that disagrees decides the error.
C2_ClaimedOrder ==
    (pc = "read" /\ validate_result /\ tampered.tags = {} /\ tampered.counts # {})
        => /\ result.none
           /\ result.err =
                IF "total_lines" \in tampered.counts THEN "INCONSISTENT_TOTAL_LINES"
                ELSE IF "max_columns" \in tampered.counts THEN "INCONSISTENT_MAX_COLUMNS"
                ELSE "INCONSISTENT_TOTAL_FIELDS"

\* C2, amended: the counts are checked in the order total_lines, total_fields,
\* max_columns, and the first that disagrees decides the error (a total_fields
\* mismatch wins over a max_columns mismatch).
C2_CheckOrder ==
    (pc = "read" /\ validate_result /\ tampered.tags = {} /\ tampered.counts # {})
        => /\ result.raised = "none"
           /\ result.none
           /\ result.err =
                IF "total_lines" \in tampered.counts THEN "INCONSISTENT_TOTAL_LINES"
                ELSE IF "total_fields" \in tampered.counts THEN "INCONSISTENT_TOTAL_FIELDS"
                ELSE "INCONSISTENT_MAX_COLUMNS"

\* total_fields and max_columns both disagree, total_lines agrees
C2_Witness ==
    /\ pc = "read" /\ validate_result /\ tampered.tags = {}
    /\ tampered.counts = {"total_fields", "max_columns"}
    /\ result.none
    /\ result.err = "INCONSISTENT_TOTAL_FIELDS"

\* C3: when any of the five tags is corrupted, read_csb returns no table and
\* the error kind of the earliest corrupted tag in the order container magic,
\* order marker, STRP, LNP, LNT, whatever the validate flag and the header
\* counts are.
C3_EarliestTagDecides ==
    (pc = "read" /\ tampered.tags # {})
        => /\ result.raised = "none"
           /\ result.none
           /\ result.lines = <<>>
           /\ result.err = TagKind(EarliestTag(tampered.tags))

\* STRP and LNT corrupted, the header counts altered, validation off
C3_Witness ==
    /\ pc = "read" /\ ~validate_result
    /\ tampered.tags = {"strp", "lnt"}
    /\ tampered.counts = Counts
    /\ result.none
    /\ result.err = "INVALID_STRP_MAGIC"

\* C4: with header counts altered and the blocks intact, read_csb with
\* validation returns no table and an Inconsistent* error of an altered
\* count; without validation it returns SUCCESS and the table the blocks
\* encode; and a validated decode that succeeds returns the table the
\* unvalidated decode of the same file returns.
C4_ValidationToggle ==
    (pc = "read" /\ tampered.tags = {})
        => /\ (tampered.counts # {} /\ validate_result)
                => /\ result.raised = "none"
                   /\ result.none
                   /\ result.err \in {InconsistentKind(c) : c \in tampered.counts}
           /\ (tampered.counts # {} /\ ~validate_result)
                => /\ result.raised = "none"
                   /\ ~result.none
                   /\ result.err = "SUCCESS"
                   /\ result.lines = lines
           /\ (validate_result /\ ~result.none)
                => result.lines = read_csb(f, FALSE).lines

\* total_lines altered, validation off: the table comes back
C4_Witness ==
    /\ pc = "read" /\ ~validate_result /\ tampered.tags = {}
    /\ tampered.counts = {"total_lines"}
    /\ Len(lines) = 2
    /\ ~result.none
    /\ result.lines = lines

C6_DanglingIsDecodeFailure ==
    (pc = "read" /\ tampered.dangling # "none")
        => /\ result.raised = "none"
           /\ result.none
           /\ result.err \in ReadError \ {"SUCCESS"}

\* C8: (a) str_map gives each distinct string the offset of its first byte in
\* the file, (b) line_map gives each row the offset of its field-count word,
\* the payload address stored there is that offset plus 16 and the field
\* addresses start there, (c) distinct strings have distinct addresses and so
\* have distinct rows.
C8_WriterAddresses ==
    Canonical
        => /\ DOMAIN str_map = Range(AllFields)
           /\ \A s \in DOMAIN str_map :
                SubSeq(f, str_map[s] + 1, str_map[s] + Len(Utf8Encode(s)) + 1)
                    = Utf8Encode(s) \o <<0>>
           /\ Len(line_map) = Len(lines)
           /\ \A i \in 1..Len(lines) :
                /\ ReadInt(f, line_map[i], byte_order, 8).val = Len(lines[i])
                /\ ReadInt(f, line_map[i] + 8, byte_order, 8).val = line_map[i] + 16
                /\ \A j \in 1..Len(lines[i]) :
                      ReadInt(f, line_map[i] + 16 + 8 * (j - 1), byte_order, 8).val
                          = str_map[lines[i][j]]
           /\ \A s, t \in DOMAIN str_map : s # t => str_map[s] # str_map[t]
           /\ \A i, j \in 1..Len(line_map) : i # j => line_map[i] # line_map[j]

\* two identical rows holding the empty string, and an empty string's address
C8_Witness ==
    /\ Canonical
    /\ lines = <<<<<<>>>>, <<<<>>>>>>
    /\ line_map[1] # line_map[2]
    /\ f[str_map[<<>>] + 1] = 0

\* C9: the decoded table has as many rows as the LineOrder block declares and
\* its i-th row is the row of the LineIndex record that starts at the i-th
\* LineOrder entry, whatever the order of the records in the LineIndex block;
\* the file write_csb wrote lists the record addresses in row order.
C9_OrderFromLineOrder ==
    /\ (pc = "read" /\ tampered.dangling = "none" /\ ~result.none)
          => /\ Len(result.lines) = DeclaredCount(Layout.lnt_pos)
             /\ \A i \in 1..Len(result.lines) :
                  \E k \in 1..Len(line_map) :
                      /\ line_map[k] = LntEntry(i)
                      /\ result.lines[i] = lines[k]
    /\ (pc = "read" /\ tampered.dangling = "none" /\ ~validate_result)
          => result.raised = "none" /\ ~result.none
    /\ Canonical
          => /\ DeclaredCount(Layout.lnt_pos) = Len(lines)
             /\ \A i \in 1..Len(lines) : LntEntry(i) = line_map[i]

\* the LineOrder entries are swapped, and the rows come back swapped
C9_Witness ==
    /\ pc = "read" /\ tampered.order /\ ~result.none
    /\ Len(lines) = 2 /\ lines[1] # lines[2]
    /\ LntEntry(1) = line_map[2] /\ LntEntry(2) = line_map[1]
    /\ result.lines = <<lines[2], lines[1]>>

\* C7: decode handles the files one at a time in list order; when it exits at
\* a file whose read_csb result has no table, every file before it has its
\* CSV output written, the exit status is the numeric value of the error kind
\* returned (never 0), and neither that file nor a later one has an output.
C7_AbortAtFirstFailure ==
    /\ cli_pc \in {"loop", "exited", "crashed", "returned"}
          => /\ Len(written) = file_idx - 1
             /\ \A k \in 1..Len(written) :
                  /\ written[k].file = k
                  /\ ~read_csb(files[k], ~skip_validation).none
                  /\ written[k].text
                        = write_csv(read_csb(files[k], ~skip_validation).lines)
    /\ cli_pc = "exited"
          => /\ file_idx <= Len(files)
             /\ read_csb(files[file_idx], ~skip_validation).none
             /\ exit_code = ErrorValue(read_csb(files[file_idx], ~skip_validation).err)
             /\ exit_code # 0
    /\ cli_pc = "returned"
          => /\ Len(written) = Len(files)
             /\ exit_code = 0

\* the second of two files fails validation: one output, exit status 8
C7_Witness ==
    /\ cli_pc = "exited"
    /\ Len(files) = 2 /\ file_idx = 2
    /\ Len(written) = 1
    /\ exit_code = 8

\* C10: read_csv of the text write_csv wrote returns the table written when
\* the table has a row, every row has a field and no field holds a comma or a
\* newline; and for any text read_csv returns at least one row, every row
\* with at least one field.
C10_CsvRoundTrip ==
    /\ (/\ csv_pc = "read_back"
        /\ Len(csv_lines) >= 1
        /\ \A i \in 1..Len(csv_lines) :
              /\ Len(csv_lines[i]) >= 1
              /\ \A j \in 1..Len(csv_lines[i]) :
                    44 \notin Range(csv_lines[i][j]) /\ 10 \notin Range(csv_lines[i][j]))
          => csv_result = csv_lines
    /\ csv_pc \in {"read_back", "read"}
          => /\ Len(csv_result) >= 1
             /\ \A i \in 1..Len(csv_result) : Len(csv_result[i]) >= 1

\* a two-row table with an empty field comes back
C10_Witness ==
    /\ csv_pc = "read_back"
    /\ csv_lines = <<<<<<>>>>, <<<<97, 98>>>>>>
    /\ csv_result = csv_lines

=============================================================================
